---------------------------- MODULE Spec2Model ----------------------------
(***************************************************************************)
(* Model of the module assembly engine of kure-sh/generate (syntax.ts):    *)
(* Module, Names/Name (identifier table), Imports/Import (import table).   *)
(*                                                                         *)
(* Conventions.                                                            *)
(*  - A JavaScript value that may be null/undefined is a sequence of       *)
(*    length <= 1: <<>> is null/undefined, <<v>> is the value v.           *)
(*  - Objects with identity (Name) live in a heap, the sequence `names`;   *)
(*    a reference to a Name is its index, 0 is "no Name".                  *)
(*  - A JavaScript Map is the sequence of its entries in insertion order.  *)
(*  - A throwing call is a result record with ok = FALSE and the state     *)
(*    the call had reached when it threw.                                  *)
(***************************************************************************)
EXTENDS Integers, Sequences, FiniteSets, TLC

(***************************************************************************)
(* Bounds of the model.                                                    *)
(***************************************************************************)
MaxNames == 3      \* Name objects ever created in one Module
MaxImports == 2    \* Import objects ever created in one Module
MaxMembers == 2    \* Module.add() calls made on one Module
MaxDefinitions == 2  \* Definitions of a schema given to emitVersion

(***************************************************************************)
(* Generic helpers.                                                        *)
(***************************************************************************)
Null == <<>>
Some(v) == <<v>>

\* JavaScript truthiness of an optional string: undefined and "" are falsy.
Truthy(o) == o # Null /\ o[1] # ""

\* Array.prototype.join on a sequence of strings.
RECURSIVE Join(_, _)
Join(s, sep) ==
  IF Len(s) = 0 THEN ""
  ELSE IF Len(s) = 1 THEN s[1]
  ELSE s[1] \o sep \o Join(Tail(s), sep)

\* Array.prototype.sort with comparator (a, b) => key(a) - key(b), key[i] being
\* the key of s[i]: the sort is stable, so an element goes after every element
\* with a smaller key and after the equal-keyed elements that preceded it.
StableSort(s, key) ==
  LET n == Len(s)
      pos == [i \in 1..n |-> Cardinality({j \in 1..n : \/ key[j] < key[i]
                                                        \/ (key[j] = key[i] /\ j < i)}) + 1]
  IN [p \in 1..n |-> s[CHOOSE i \in 1..n : pos[i] = p]]

Ok(v) == [ok |-> TRUE, val |-> v]
Err(e) == [ok |-> FALSE, val |-> e]

(***************************************************************************)
(* class Name                                                              *)
(***************************************************************************)
NewName(declared, usage) ==
  [declared |-> declared, usage |-> usage, resolved |-> Null]

\* Mutant of NameWeight: the two weights of Name.usages exchanged.
NameWeightImportFirst(n) == IF n.usage = "declaration" THEN 1 ELSE 0

NameWeight(n) == IF n.usage = "declaration" THEN 0 ELSE 1

\* Mutant of NameIsConflict: any two registrations of one usage conflict.
NameIsConflictSameUsage(n, usage) == n.usage = usage

NameIsConflict(n, usage) == n.usage = "declaration" /\ usage = "declaration"

\* resolve(as): this.resolved = as ?? this.declared
NameResolve(n, as) ==
  [n EXCEPT !.resolved = IF as = Null THEN Some(n.declared) ELSE as]

\* Mutant of NameToken: an unresolved Name answers with its raw name.
NameTokenUnchecked(n) ==
  Ok(IF n.resolved = Null THEN n.declared ELSE n.resolved[1])

NameToken(n) ==
  IF n.resolved = Null THEN Err("not yet resolved") ELSE Ok(n.resolved[1])

(***************************************************************************)
(* class Names: `bound` is the Map<string, Name[]>, `heap` the Name objects *)
(***************************************************************************)
KeyIndex(bnd, token) ==
  IF \E i \in 1..Len(bnd) : bnd[i].key = token
  THEN CHOOSE i \in 1..Len(bnd) : bnd[i].key = token
  ELSE 0

\* private token(name): the list of the name, created empty when absent.
NamesToken(bnd, token) ==
  IF KeyIndex(bnd, token) # 0 THEN bnd
  ELSE Append(bnd, [key |-> token, names |-> <<>>])

\* add(token, usage): the new heap and table, and the new Name's reference.
NamesAdd(heap, bnd, token, usage) ==
  LET b1 == NamesToken(bnd, token)
      i == KeyIndex(b1, token)
      list == b1[i].names
      id == Len(heap) + 1
  IN IF \E k \in 1..Len(list) : NameIsConflict(heap[list[k]], usage)
     THEN [ok |-> FALSE, heap |-> heap, bound |-> b1, id |-> 0]
     ELSE [ok |-> TRUE,
           heap |-> Append(heap, NewName(token, usage)),
           bound |-> [b1 EXCEPT ![i].names = Append(@, id)],
           id |-> id]

\* getDeclared(token): the reference of the declaration of token, 0 when it throws.
NamesGetDeclared(heap, bnd, token) ==
  LET i == KeyIndex(bnd, token)
      list == IF i = 0 THEN <<>> ELSE bnd[i].names
      decl == SelectSeq(list, LAMBDA id : heap[id].usage = "declaration")
  IN IF Len(decl) = 0 THEN 0 ELSE decl[1]

\* Mutant of Spelling: the second Name numbered like the later ones.
SpellingNumbered(identifier, i) ==
  IF i = 0 THEN Null ELSE Some(identifier \o "_" \o ToString(i))

\* The spelling resolve() hands to the Name at 0-based position i of identifier.
Spelling(identifier, i) ==
  IF i = 0 THEN Null
  ELSE IF i = 1 THEN Some(identifier \o "_")
  ELSE Some(identifier \o "_" \o ToString(i))

SortNames(heap, list) ==
  StableSort(list, [p \in 1..Len(list) |-> NameWeight(heap[list[p]])])

\* resolve(): every list sorted in place by weight, every Name given its spelling.
\* (add() puts a Name in the list keyed by its declared token, so that is where
\* resolve() meets it.)
NamesResolve(heap, bnd) ==
  LET sorted == [e \in 1..Len(bnd) |->
                   [bnd[e] EXCEPT !.names = SortNames(heap, bnd[e].names)]]
      entry(id) == sorted[KeyIndex(bnd, heap[id].declared)]
      index(id) == (CHOOSE p \in 1..Len(entry(id).names) : entry(id).names[p] = id) - 1
  IN [heap |-> [id \in 1..Len(heap) |->
                  NameResolve(heap[id], Spelling(entry(id).key, index(id)))],
      bound |-> sorted]

(***************************************************************************)
(* class Import.  ImportOptions is undefined (Null) or a record of two     *)
(* optional fields, `as` and `type`.  An ImportSource is a tuple           *)
(* <<"api", name>>, <<"api", name, path>>, <<"lib", ...>> or               *)
(* <<"local", path>>.                                                      *)
(***************************************************************************)
NoOptions == Null
Options(as, type) == Some([as |-> as, type |-> type])

\* constructor(member, options)
NewImport(member, options) ==
  [member |-> member,
   as |-> IF options # Null /\ Truthy(options[1].as) THEN options[1].as ELSE Null,
   type |-> IF options # Null /\ options[1].type # Null THEN options[1].type[1] ELSE FALSE,
   name |-> 0]

\* static urn(source)
ImportUrn(source) ==
  IF source[1] \in {"api", "lib"} THEN Join(<<"kure">> \o source, ":")
  ELSE "/" \o source[2]

\* apply(module): this.name = module.names.add(this.as ?? this.member, "import")
ImportApply(imp, heap, bnd) ==
  LET r == NamesAdd(heap, bnd, IF imp.as # Null THEN imp.as[1] ELSE imp.member, "import")
  IN [imp |-> [imp EXCEPT !.name = r.id], heap |-> r.heap, bound |-> r.bound]

\* token()
ImportToken(imp, heap) ==
  IF imp.name = 0 THEN Err("not yet named") ELSE NameToken(heap[imp.name])

\* render(inTypeImport)
ImportRender(imp, inTypeImport, heap) ==
  IF inTypeImport /\ ~imp.type THEN Err("cannot import value via import type")
  ELSE LET t == ImportToken(imp, heap)
       IN IF ~t.ok THEN t
          ELSE Ok((IF imp.type /\ ~inTypeImport THEN "type " ELSE "") \o
                  (IF t.val # imp.member THEN imp.member \o " as " \o t.val ELSE t.val))

(***************************************************************************)
(* class Imports: `mods` is the Map<ModuleURN, ImportedModule>, an entry    *)
(* [urn, src, members] with members the Map<string, Import>.               *)
(***************************************************************************)
UrnIndex(mods, urn) ==
  IF \E i \in 1..Len(mods) : mods[i].urn = urn
  THEN CHOOSE i \in 1..Len(mods) : mods[i].urn = urn
  ELSE 0

MemberIndex(members, name) ==
  IF \E k \in 1..Len(members) : members[k].member = name
  THEN CHOOSE k \in 1..Len(members) : members[k].member = name
  ELSE 0

\* private module(src)
ImportsModule(mods, src) ==
  IF UrnIndex(mods, ImportUrn(src)) # 0 THEN mods
  ELSE Append(mods, [urn |-> ImportUrn(src), src |-> src, members |-> <<>>])

\* Mutant of ImportMerge: the alias of the latest call wins.
ImportMergeLastAlias(imp, options) ==
  IF options = Null THEN imp
  ELSE [imp EXCEPT
          !.type = IF imp.type /\ ~(options[1].type = Some(TRUE)) THEN FALSE ELSE imp.type,
          !.as = IF Truthy(options[1].as) THEN options[1].as ELSE imp.as]

\* The merge of use() into an Import that exists.
ImportMerge(imp, options) ==
  IF options = Null THEN imp
  ELSE [imp EXCEPT
          !.type = IF imp.type /\ ~(options[1].type = Some(TRUE)) THEN FALSE ELSE imp.type,
          !.as = IF ~Truthy(imp.as) /\ Truthy(options[1].as) THEN options[1].as ELSE imp.as]

\* use(src, name, options): the new table; the Import returned is the member
\* `name` of the entry of ImportUrn(src).
ImportsUse(mods, src, name, options) ==
  LET m1 == ImportsModule(mods, src)
      i == UrnIndex(m1, ImportUrn(src))
      k == MemberIndex(m1[i].members, name)
  IN IF k = 0
     THEN [m1 EXCEPT ![i].members = Append(@, NewImport(name, options))]
     ELSE [m1 EXCEPT ![i].members[k] = ImportMerge(@, options)]

\* apply(module): every Import of every source, in Map order.
RECURSIVE ImportsApplyFrom(_, _, _, _, _)
ImportsApplyFrom(mods, heap, bnd, i, k) ==
  IF i > Len(mods) THEN [mods |-> mods, heap |-> heap, bound |-> bnd]
  ELSE IF k > Len(mods[i].members) THEN ImportsApplyFrom(mods, heap, bnd, i + 1, 1)
  ELSE LET r == ImportApply(mods[i].members[k], heap, bnd)
       IN ImportsApplyFrom([mods EXCEPT ![i].members[k] = r.imp], r.heap, r.bound, i, k + 1)

ImportsApply(mods, heap, bnd) == ImportsApplyFrom(mods, heap, bnd, 1, 1)

NumImports(mods) ==
  LET RECURSIVE count(_)
      count(i) == IF i > Len(mods) THEN 0 ELSE Len(mods[i].members) + count(i + 1)
  IN count(1)

(***************************************************************************)
(* Strings the model cannot take apart are taken apart by table: the       *)
(* segments of a "/"-separated path, String.replaceAll("/", "-") of a     *)
(* package name, String.localeCompare as the rank in a collation list.     *)
(***************************************************************************)
PathSegments(p) ==
  CASE p = "x.ts" -> <<"x.ts">>
    [] p = "./x.ts" -> <<".", "x.ts">>
    [] p = "g/x.ts" -> <<"g", "x.ts">>
    [] p = "v1.ts" -> <<"v1.ts">>
    [] p = "v2.ts" -> <<"v2.ts">>
    [] p = "g/v1.ts" -> <<"g", "v1.ts">>

\* pkg.replaceAll("/", "-"); the packages of the model other than "g/a" hold no "/".
ReplaceSlashes(pkg) == IF pkg = "g/a" THEN "g-a" ELSE pkg

StartsWithDot(segment) == segment \in {".", ".."}

\* The strings the model sorts, in the order of String.localeCompare
\* (punctuation before letters, "." before ":" before "@" before "/").
CollationOrder ==
  << "../x.ts", "./g/x.ts", "./v2.ts", "./x.ts",
     "@kure-api/a:b", "@kure-api/a/b", "@kure-api/kubernetes/v1.ts",
     "@kure-api/meta/v1.ts", "@kure-lib/schema",
     "A", "A_", "B",
     "factory", "NameScope", "ObjectMeta", "Resource", "ResourceList",
     "https://kure.sh/api/@1.0/v1.ts",
     "https://kure.sh/api/a:b/mod.ts", "https://kure.sh/api/a@1.0/b", "https://kure.sh/api/a/b",
     "https://kure.sh/api/kubernetes/v1.ts",
     "https://kure.sh/api/meta@1.0/v1.ts", "https://kure.sh/api/meta/v1.ts",
     "https://kure.sh/lib/schema@0.1/mod.ts" >>

LocaleRank(str) == CHOOSE i \in 1..Len(CollationOrder) : CollationOrder[i] = str

JsonString(str) == "\"" \o str \o "\""

(***************************************************************************)
(* posix path functions of std/path on segment sequences (absolute paths   *)
(* are the segments after the root).                                       *)
(***************************************************************************)
Front(s) == SubSeq(s, 1, Len(s) - 1)
Last(s) == s[Len(s)]

\* dirname of a relative path: "." when it has one segment.
PosixDirname(segs) == IF Len(segs) <= 1 THEN <<".">> ELSE Front(segs)

\* Normalisation of an absolute path: "." dropped, ".." pops.
RECURSIVE PosixResolve(_, _)
PosixResolve(segs, acc) ==
  IF Len(segs) = 0 THEN acc
  ELSE IF segs[1] = "." \/ segs[1] = "" THEN PosixResolve(Tail(segs), acc)
  ELSE IF segs[1] = ".." THEN PosixResolve(Tail(segs), IF Len(acc) = 0 THEN acc ELSE Front(acc))
  ELSE PosixResolve(Tail(segs), Append(acc, segs[1]))

\* relative(from, to): ".." for each segment of from after the common prefix,
\* then the rest of to.
PosixRelative(from, to) ==
  LET f == PosixResolve(from, <<>>)
      t == PosixResolve(to, <<>>)
      common == CHOOSE k \in 0..Len(f) :
                  /\ k <= Len(t)
                  /\ \A j \in 1..k : f[j] = t[j]
                  /\ (k < Len(f) /\ k < Len(t) => f[k + 1] # t[k + 1])
  IN [j \in 1..(Len(f) - common) |-> ".."] \o SubSeq(t, common + 1, Len(t))

(***************************************************************************)
(* class Context: [engine, dependencies, path], path being module.path and *)
(* dependencies the Map from a package to its version.                     *)
(***************************************************************************)
DependencyVersion(ctx, pkg) ==
  IF pkg \in DOMAIN ctx.dependencies THEN Some(ctx.dependencies[pkg]) ELSE Null

\* Imports.path(src, ctx)
ImportsPath(src, ctx) ==
  IF src[1] = "local"
  THEN LET local == <<"src">> \o PosixDirname(PathSegments(ctx.path))
           dest == <<"src">> \o PathSegments(src[2])
           rel == PosixRelative(local, Front(dest))
           dir == IF Len(rel) = 0 THEN "."
                  ELSE IF StartsWithDot(rel[1]) THEN Join(rel, "/")
                  ELSE "./" \o Join(rel, "/")
       IN dir \o "/" \o Last(dest)
  ELSE LET type == src[1]
           pkg == src[2]
           path == IF Len(src) >= 3 THEN Some(src[3]) ELSE Null
       IN IF ctx.engine = "deno"
          THEN LET version == IF type = "api" THEN DependencyVersion(ctx, pkg) ELSE Some("0.1")
                   pkg2 == IF pkg = "kubernetes" /\ Truthy(version) THEN "" ELSE pkg
                   target == pkg2 \o (IF Truthy(version) THEN "@" \o version[1] ELSE "")
               IN "https://kure.sh/" \o type \o "/" \o target \o "/" \o
                  (IF Truthy(path) THEN path[1] ELSE "mod.ts")
          ELSE "@kure-" \o type \o "/" \o ReplaceSlashes(pkg) \o
               (IF Truthy(path) THEN "/" \o path[1] ELSE "")

\* Mutant of RenderImport: `import type` as soon as some member is type-only.
RenderImportSome(imported, heap, path) ==
  LET imports == StableSort(imported.members,
                            [k \in 1..Len(imported.members) |->
                               LocaleRank(imported.members[k].member)])
      n == Len(imports)
      someType == \E k \in 1..n : imports[k].type
      items == [k \in 1..n |-> ImportRender(imports[k], someType, heap)]
      bad == {k \in 1..n : ~items[k].ok}
  IN IF bad # {} THEN Err(items[CHOOSE k \in bad : \A j \in bad : k <= j].val)
     ELSE Ok((IF someType THEN "import type { " ELSE "import { ") \o
             Join([k \in 1..n |-> items[k].val], ", ") \o " }" \o
             " from " \o JsonString(path) \o ";")

\* renderImport(urn) of Imports.render: the statement of one source, or the
\* first error one of its members throws.
RenderImport(imported, heap, path) ==
  LET imports == StableSort(imported.members,
                            [k \in 1..Len(imported.members) |->
                               LocaleRank(imported.members[k].member)])
      n == Len(imports)
      allType == \A k \in 1..n : imports[k].type
      items == [k \in 1..n |-> ImportRender(imports[k], allType, heap)]
      bad == {k \in 1..n : ~items[k].ok}
  IN IF bad # {} THEN Err(items[CHOOSE k \in bad : \A j \in bad : k <= j].val)
     ELSE Ok((IF allType THEN "import type { " ELSE "import { ") \o
             Join([k \in 1..n |-> items[k].val], ", ") \o " }" \o
             " from " \o JsonString(path) \o ";")

\* Mutant of ImportsRender: the local bucket rendered before the remote one.
ImportsRenderLocalFirst(mods, heap, ctx) ==
  LET all == [i \in 1..Len(mods) |-> i]
      paths == [i \in 1..Len(mods) |-> ImportsPath(mods[i].src, ctx)]
      rank == [i \in 1..Len(mods) |-> LocaleRank(paths[i])]
      remote == SelectSeq(all, LAMBDA i : mods[i].src[1] # "local")
      local == SelectSeq(all, LAMBDA i : mods[i].src[1] = "local")
      nonEmpty == SelectSeq(<<local, remote>>, LAMBDA grp : Len(grp) > 0)
      groups == [n \in 1..Len(nonEmpty) |-> StableSort(nonEmpty[n], [p \in 1..Len(nonEmpty[n]) |-> rank[nonEmpty[n][p]]])]
      order == IF Len(groups) = 0 THEN <<>>
               ELSE IF Len(groups) = 1 THEN groups[1]
               ELSE groups[1] \o groups[2]
      stmts == [i \in 1..Len(mods) |-> RenderImport(mods[i], heap, paths[i])]
      bad == {p \in 1..Len(order) : ~stmts[order[p]].ok}
      renderGroup(urns) == Join([p \in 1..Len(urns) |-> stmts[urns[p]].val], "\n")
  IN IF bad # {} THEN Err(stmts[order[CHOOSE p \in bad : \A q \in bad : p <= q]].val)
     ELSE Ok(Join([n \in 1..Len(groups) |-> renderGroup(groups[n])], "\n\n"))

\* Imports.render(ctx): the import block, or the first error thrown.
ImportsRender(mods, heap, ctx) ==
  LET all == [i \in 1..Len(mods) |-> i]
      paths == [i \in 1..Len(mods) |-> ImportsPath(mods[i].src, ctx)]
      rank == [i \in 1..Len(mods) |-> LocaleRank(paths[i])]
      remote == SelectSeq(all, LAMBDA i : mods[i].src[1] # "local")
      local == SelectSeq(all, LAMBDA i : mods[i].src[1] = "local")
      nonEmpty == SelectSeq(<<remote, local>>, LAMBDA grp : Len(grp) > 0)
      groups == [n \in 1..Len(nonEmpty) |-> StableSort(nonEmpty[n], [p \in 1..Len(nonEmpty[n]) |-> rank[nonEmpty[n][p]]])]
      order == IF Len(groups) = 0 THEN <<>>
               ELSE IF Len(groups) = 1 THEN groups[1]
               ELSE groups[1] \o groups[2]
      stmts == [i \in 1..Len(mods) |-> RenderImport(mods[i], heap, paths[i])]
      bad == {p \in 1..Len(order) : ~stmts[order[p]].ok}
      renderGroup(urns) == Join([p \in 1..Len(urns) |-> stmts[urns[p]].val], "\n")
  IN IF bad # {} THEN Err(stmts[order[CHOOSE p \in bad : \A q \in bad : p <= q]].val)
     ELSE Ok(Join([n \in 1..Len(groups) |-> renderGroup(groups[n])], "\n\n"))

(***************************************************************************)
(* The Schema Model of mod.ts.  A Type is a record with its tag in `type`: *)
(* string [enum], integer, float, boolean, unknown, array/map [values],    *)
(* optional [value], union [values], object [properties, inherit],         *)
(* reference [target: [scope, name]], resource [properties, scope].  A     *)
(* Property is [name, required, value, description, deprecated], a         *)
(* Definition [name, value, description, deprecated], a schema             *)
(* [group: [name, module], version, dependencies, definitions].            *)
(***************************************************************************)
\* The source of the imports mod.ts makes from the schema library.
LibSchema == <<"lib", "schema">>

\* Array.prototype.flat of a sequence of sequences.
RECURSIVE Flatten(_)
Flatten(ss) == IF Len(ss) = 0 THEN <<>> ELSE ss[1] \o Flatten(Tail(ss))

\* Array.prototype.find as the index of the first element of a set of
\* indices, 0 when there is none.
FirstOf(indices) ==
  IF indices = {} THEN 0 ELSE CHOOSE i \in indices : \A j \in indices : i <= j

\* The first error of a sequence of results, or the values joined.
Concat(parts, sep) ==
  LET bad == {i \in 1..Len(parts) : ~parts[i].ok}
  IN IF bad # {} THEN parts[FirstOf(bad)]
     ELSE Ok(Join([i \in 1..Len(parts) |-> parts[i].val], sep))

\* /^[A-Za-z]\w*$/.test(name), for the property names of the model.
IsIdentifier(name) == name \notin {"", "my-prop", "0th"}

\* lit(value): JSON.stringify of a string without special characters.
Lit(value) == JsonString(value)

\* line.replaceAll("*/", "*\\/"), for the descriptions of the model.
EscapeComment(line) == IF line = "a */ b" THEN "a *\\/ b" ELSE line

\* doc(meta, indent): description is undefined or one line of text.
Doc(meta, indent) ==
  LET lines == (IF Truthy(meta.description) THEN <<meta.description[1]>> ELSE <<>>) \o
               (IF meta.deprecated THEN <<"@deprecated">> ELSE <<>>)
      prefix == IF indent = 0 THEN "" ELSE "  "
  IN IF Len(lines) = 0 THEN ""
     ELSE prefix \o "/**\n" \o
          Join([i \in 1..Len(lines) |-> prefix \o " * " \o EscapeComment(lines[i]) \o "\n"], "") \o
          prefix \o " */\n"

\* The module path of a group and version: (module ? module/ : "") + version.ts
VersionPath(module, version) ==
  (IF Truthy(module) THEN module[1] \o "/" ELSE "") \o version \o ".ts"

\* gen.reference: the ImportSource of a scoped reference.
ReferenceSource(ref) ==
  LET scope == ref.target.scope[1]
      path == VersionPath(scope.group.module, scope.version)
  IN IF Truthy(scope.package) THEN <<"api", scope.package[1], path>> ELSE <<"local", path>>

\* Whether building gen.type(type) throws: a "resource" type in it.
RECURSIVE GenTypeThrows(_)
GenTypeThrows(t) ==
  CASE t.type = "resource" -> TRUE
    [] t.type \in {"array", "map"} -> GenTypeThrows(t.values)
    [] t.type = "optional" -> GenTypeThrows(t.value)
    [] t.type = "union" -> \E i \in 1..Len(t.values) : GenTypeThrows(t.values[i])
    [] t.type = "object" -> \E i \in 1..Len(t.properties) : GenTypeThrows(t.properties[i].value)
    [] OTHER -> FALSE

NestedResource == Err("\"resource\" type not allowed in gen.type()")

\* gen.resource, its check: the first property named "metadata".
MetaProperty(properties) ==
  FirstOf({i \in 1..Len(properties) : properties[i].name = "metadata"})

\* The properties gen.resource compiles as an object: all but metaProperty.
WithoutProperty(properties, m) ==
  SubSeq(properties, 1, m - 1) \o SubSeq(properties, m + 1, Len(properties))

(***************************************************************************)
(* The Generators of mod.ts.  A Generator is modelled by what its closure  *)
(* holds: [kind |-> "apiVersion"], [kind |-> "resourceBase", ref] or       *)
(* [kind |-> "definition", def].  Building one may throw; its first stage  *)
(* (module) => ... makes calls on the Module; its second stage (ctx) =>    *)
(* ... returns text or throws.                                             *)
(***************************************************************************)
\* Mutant of ResourceBase: the last resource Definition is the one taken.
ResourceBaseOfLast(definitions) ==
  LET resources == {i \in 1..Len(definitions) : definitions[i].value.type = "resource"}
      r == IF resources = {} THEN 0 ELSE CHOOSE i \in resources : \A j \in resources : i >= j
  IN IF r = 0 THEN Ok(Null)
     ELSE LET props == definitions[r].value.properties
              m == FirstOf({i \in 1..Len(props) :
                              props[i].name = "metadata" /\ props[i].value.type = "reference"})
          IN IF m = 0 THEN Err("Resource " \o definitions[r].name \o " has no metadata field")
             ELSE Ok(Some([kind |-> "resourceBase", ref |-> props[m].value]))

\* resourceBase(definitions): null, the Generator of the alias, or a throw.
ResourceBase(definitions) ==
  LET r == FirstOf({i \in 1..Len(definitions) : definitions[i].value.type = "resource"})
  IN IF r = 0 THEN Ok(Null)
     ELSE LET props == definitions[r].value.properties
              m == FirstOf({i \in 1..Len(props) :
                              props[i].name = "metadata" /\ props[i].value.type = "reference"})
          IN IF m = 0 THEN Err("Resource " \o definitions[r].name \o " has no metadata field")
             ELSE Ok(Some([kind |-> "resourceBase", ref |-> props[m].value]))

\* gen.definition(definition): the Generator, or the throw of building it.
GenDefinition(def) ==
  IF def.value.type = "resource"
  THEN LET props == def.value.properties
           m == MetaProperty(props)
       IN IF m = 0 \/ props[m].value.type # "reference"
          THEN Err(def.name \o ": expected metadata reference property")
          ELSE IF \E i \in 1..Len(props) : i # m /\ GenTypeThrows(props[i].value)
          THEN NestedResource
          ELSE Ok([kind |-> "definition", def |-> def])
  ELSE IF GenTypeThrows(def.value) THEN NestedResource
  ELSE Ok([kind |-> "definition", def |-> def])

\* The calls a Generator's first stage makes on the Module, in order:
\* [op |-> "name", name], [op |-> "get", name] or
\* [op |-> "import", src, name, options].
CallName(name) == [op |-> "name", name |-> name]
CallGet(name) == [op |-> "get", name |-> name]
CallImport(src, name, options) == [op |-> "import", src |-> src, name |-> name, options |-> options]

TypeOnly == Options(Null, Some(TRUE))

\* gen.reference(ref), first stage
ReferenceCalls(ref) ==
  IF ref.target.scope = Null THEN <<CallGet(ref.target.name)>>
  ELSE <<CallImport(ReferenceSource(ref), ref.target.name, TypeOnly)>>

\* gen.type(type, declaration), first stage
RECURSIVE TypeCalls(_, _)
TypeCalls(t, declaration) ==
  CASE t.type = "reference" -> ReferenceCalls(t)
    [] t.type \in {"array", "map"} -> TypeCalls(t.values, FALSE)
    [] t.type = "optional" -> TypeCalls(t.value, FALSE)
    [] t.type = "union" -> Flatten([i \in 1..Len(t.values) |-> TypeCalls(t.values[i], FALSE)])
    [] t.type = "object" ->
         (IF declaration THEN <<>>
          ELSE Flatten([i \in 1..Len(t.inherit) |-> ReferenceCalls(t.inherit[i])])) \o
         Flatten([i \in 1..Len(t.properties) |-> TypeCalls(t.properties[i].value, FALSE)])
    [] OTHER -> <<>>

\* The first stage of a member of emitVersion.
GeneratorCalls(g) ==
  CASE g.kind = "apiVersion" -> <<CallName("APIVersion"), CallName("apiVersion")>>
    [] g.kind = "resourceBase" ->
         <<CallGet("APIVersion"), CallName("Resource"),
           CallImport(LibSchema, "Resource", TypeOnly),
           CallImport(LibSchema, "NameScope", TypeOnly)>> \o ReferenceCalls(g.ref)
    [] g.def.value.type = "resource" ->
         <<CallImport(LibSchema, "factory", NoOptions),
           CallImport(LibSchema, "ResourceList", TypeOnly),
           CallGet("apiVersion"), CallGet("Resource"),
           CallName(g.def.name), CallName(g.def.name \o "List")>> \o
         TypeCalls([type |-> "object", inherit |-> <<>>,
                    properties |-> WithoutProperty(g.def.value.properties,
                                                   MetaProperty(g.def.value.properties))], FALSE)
    [] g.def.value.type = "object" ->
         <<CallName(g.def.name)>> \o TypeCalls(g.def.value, TRUE) \o
         Flatten([i \in 1..Len(g.def.value.inherit) |-> ReferenceCalls(g.def.value.inherit[i])])
    [] g.def.value.type = "reference" ->
         (IF g.def.name # g.def.value.target.name THEN <<CallName(g.def.name)>> ELSE <<>>) \o
         ReferenceCalls(g.def.value)
    [] OTHER -> <<CallName(g.def.name)>> \o TypeCalls(g.def.value, TRUE)

\* The calls made on the tables [heap, bound, mods] one after the other, up
\* to the first that throws: Module.name as Names.add(name, "declaration"),
\* Module.import as Imports.use, Module.get being a closure and no call.
RECURSIVE MakeCalls(_, _)
MakeCalls(calls, st) ==
  IF Len(calls) = 0 THEN [ok |-> TRUE, val |-> "", st |-> st]
  ELSE LET c == calls[1]
       IN CASE c.op = "name" ->
                 LET r == NamesAdd(st.heap, st.bound, c.name, "declaration")
                     st1 == [st EXCEPT !.heap = r.heap, !.bound = r.bound]
                 IN IF r.ok THEN MakeCalls(Tail(calls), st1)
                    ELSE [ok |-> FALSE, val |-> "Duplicate declaration", st |-> st1]
            [] c.op = "import" ->
                 MakeCalls(Tail(calls),
                           [st EXCEPT !.mods = ImportsUse(st.mods, c.src, c.name, c.options)])
            [] OTHER -> MakeCalls(Tail(calls), st)

(***************************************************************************)
(* Second stage: the text of a Generator on the tables st = [heap, bound,  *)
(* mods] and the Context c, or the first error a Binding throws.           *)
(***************************************************************************)
\* Context.apiVersion
ContextApiVersion(c) ==
  IF Truthy(c.group.name) THEN c.group.name[1] \o "/" \o c.version ELSE c.version

\* Mutant of DeclaredToken: a name without declaration is spelled raw.
DeclaredTokenOrRaw(st, name) ==
  LET id == NamesGetDeclared(st.heap, st.bound, name)
  IN IF id = 0 THEN Ok(name) ELSE NameToken(st.heap[id])

\* The Binding of Module.get(name).  It is also the Binding of
\* Module.name(name): that Name is the one declaration of its raw name,
\* a second one being refused by Names.add.
DeclaredToken(st, name) ==
  LET id == NamesGetDeclared(st.heap, st.bound, name)
  IN IF id = 0 THEN Err("not declared in module") ELSE NameToken(st.heap[id])

\* The Binding of Module.import(src, name).
ImportedToken(st, src, name) ==
  LET i == UrnIndex(st.mods, ImportUrn(src))
  IN ImportToken(st.mods[i].members[MemberIndex(st.mods[i].members, name)], st.heap)

\* gen.reference(ref), second stage
ReferenceRender(ref, st) ==
  IF ref.target.scope = Null THEN DeclaredToken(st, ref.target.name)
  ELSE ImportedToken(st, ReferenceSource(ref), ref.target.name)

\* gen.type(type, declaration), second stage; gen.property inlined.
RECURSIVE TypeRender(_, _, _)
TypeRender(t, declaration, st) ==
  LET property(p) ==
        Concat(<<Ok(Doc(p, 1) \o "  " \o
                    (IF IsIdentifier(p.name) THEN p.name ELSE JsonString(p.name)) \o
                    (IF p.required THEN "" ELSE "?") \o ": "),
                 TypeRender(p.value, FALSE, st),
                 Ok(";")>>, "")
  IN CASE t.type = "reference" -> ReferenceRender(t, st)
       [] t.type = "string" ->
            IF t.enum # Null
            THEN Ok(Join([i \in 1..Len(t.enum[1]) |-> JsonString(t.enum[1][i])], " | "))
            ELSE Ok("string")
       [] t.type \in {"integer", "float"} -> Ok("number")
       [] t.type = "boolean" -> Ok("boolean")
       [] t.type = "unknown" -> Ok("unknown")
       [] t.type = "array" ->
            Concat(<<Ok("Array<"), TypeRender(t.values, FALSE, st), Ok(">")>>, "")
       [] t.type = "map" ->
            Concat(<<Ok("Record<string, "), TypeRender(t.values, FALSE, st), Ok(">")>>, "")
       [] t.type = "union" ->
            Concat([i \in 1..Len(t.values) |-> TypeRender(t.values[i], FALSE, st)], " | ")
       [] t.type = "optional" ->
            Concat(<<TypeRender(t.value, FALSE, st), Ok(" | null")>>, "")
       [] t.type = "object" ->
            Concat(<<Concat(IF declaration THEN <<>>
                            ELSE [i \in 1..Len(t.inherit) |-> ReferenceRender(t.inherit[i], st)],
                            " & "),
                     Ok("{\n"),
                     Concat([i \in 1..Len(t.properties) |-> property(t.properties[i])], "\n"),
                     Ok("\n}")>>, "")

\* apiVersion, second stage
ApiVersionRender(st, c) ==
  LET type == DeclaredToken(st, "APIVersion")
      value == DeclaredToken(st, "apiVersion")
      version == Ok(Lit(ContextApiVersion(c)))
  IN Concat(<<Ok("export type "), type, Ok(" = "), version, Ok(";\n"),
              Ok("export const "), value, Ok(": "), type, Ok(" = "), version, Ok(";")>>, "")

\* The back quote of the doc comment of resourceBase, written as an
\* apostrophe: a string of this language cannot hold a back quote.
BackQuote == "'"

\* resourceBase, second stage
ResourceBaseRender(g, st, c) ==
  LET base == ImportedToken(st, LibSchema, "Resource")
      scope == ImportedToken(st, LibSchema, "NameScope")
  IN Concat(<<Ok("/** A {@link "), base,
              Ok(" resource} in the " \o BackQuote \o ContextApiVersion(c) \o BackQuote \o " API. */\n"),
              Ok("export type "), DeclaredToken(st, "Resource"),
              Ok("<K extends string, S extends "), scope,
              Ok(" = " \o Lit("namespace") \o ">"),
              Ok(" = "), base, Ok("<"), DeclaredToken(st, "APIVersion"),
              Ok(", K, S, "), ReferenceRender(g.ref, st), Ok(">;")>>, "")

\* gen.resource, second stage: kind(), factory(), list()
ResourceRender(def, st) ==
  LET name == DeclaredToken(st, def.name)
      litName == IF name.ok THEN Ok(Lit(name.val)) ELSE name
      scope == def.value.scope
      object == [type |-> "object", inherit |-> <<>>,
                 properties |-> WithoutProperty(def.value.properties,
                                                MetaProperty(def.value.properties))]
      typeParams == Concat(<<litName>> \o
                           (IF scope # "namespace" THEN <<Ok(Lit(scope))>> ELSE <<>>), ", ")
      kind == Concat(<<Ok(Doc(def, 0) \o "export interface "), name, Ok(" extends "),
                       DeclaredToken(st, "Resource"), Ok("<"), typeParams, Ok("> "),
                       TypeRender(object, FALSE, st)>>, "")
      args == Concat(<<DeclaredToken(st, "apiVersion"), litName, Ok(Lit(scope))>>, ", ")
      factory == IF ~args.ok THEN args
                 ELSE Concat(<<Ok("export const "), name, Ok(" = "),
                               ImportedToken(st, LibSchema, "factory"),
                               Ok("<"), name, Ok(">(" \o args.val \o ");")>>, "")
      list == Concat(<<Ok("export type "), DeclaredToken(st, def.name \o "List"), Ok(" = "),
                       ImportedToken(st, LibSchema, "ResourceList"),
                       Ok("<"), name, Ok(">;")>>, "")
  IN Concat(<<kind, factory, list>>, "\n\n")

\* gen.definition(definition), second stage
DefinitionRender(def, st) ==
  CASE def.value.type = "resource" -> ResourceRender(def, st)
    [] def.value.type = "object" ->
         LET parents == [i \in 1..Len(def.value.inherit) |->
                           ReferenceRender(def.value.inherit[i], st)]
             extend == IF Len(parents) > 0
                       THEN Concat(<<Ok(" extends "), Concat(parents, ", ")>>, "")
                       ELSE Ok("")
         IN Concat(<<Ok(Doc(def, 0) \o "export interface "),
                     DeclaredToken(st, def.name), extend, Ok(" "),
                     TypeRender(def.value, TRUE, st)>>, "")
    [] def.value.type = "reference" ->
         LET as == IF def.name # def.value.target.name
                   THEN Concat(<<Ok(" as "), DeclaredToken(st, def.name)>>, "")
                   ELSE Ok("")
         IN Concat(<<Ok(Doc(def, 0) \o "export type { "),
                     ReferenceRender(def.value, st), as, Ok(" };")>>, "")
    [] OTHER ->
         Concat(<<Ok(Doc(def, 0) \o "export type "), DeclaredToken(st, def.name),
                  Ok(" = "), TypeRender(def.value, TRUE, st), Ok(";")>>, "")

\* The second stage of a member of emitVersion.
GeneratorRender(g, st, c) ==
  CASE g.kind = "apiVersion" -> ApiVersionRender(st, c)
    [] g.kind = "resourceBase" -> ResourceBaseRender(g, st, c)
    [] OTHER -> DefinitionRender(g.def, st)

\* new Map(dependencies.map((dep) => [dep.package, dep])): the last entry
\* of a package is the one kept.
DependencyMap(dependencies) ==
  [p \in {dependencies[i].package : i \in 1..Len(dependencies)} |->
     dependencies[CHOOSE i \in 1..Len(dependencies) :
                    /\ dependencies[i].package = p
                    /\ \A j \in 1..Len(dependencies) :
                         dependencies[j].package = p => j <= i].version]

\* new Context(schema, module, engine), module.path being the path of
\* new Module(...) in emitVersion.
NewContext(schema, engine) ==
  [engine |-> engine,
   dependencies |-> DependencyMap(schema.dependencies),
   path |-> VersionPath(schema.group.module, schema.version),
   group |-> schema.group,
   version |-> schema.version]

(***************************************************************************)
(* State of one Module.                                                    *)
(***************************************************************************)
VARIABLES
  names,     \* the Name objects, in creation order
  bound,     \* Names.bound
  modules,   \* Imports.modules
  members,   \* Module.members: ClosureGenerators, [applied] once apply() has run
  pc,        \* "idle", or the callback Module.render() is inside: "apply", "render"
  idx,       \* the member whose callback runs
  snap,      \* length of the member list the running loop of render() iterates
  ctx,       \* the Context of the last render() called
  source,    \* the fragments render() has collected
  result,    \* outcome of the last call made on the Module
  frozen,    \* Null, or the number of Names the last Names.resolve() met
  emit,      \* Null, or the emitVersion() that drives the Module: [schema, engine, next]
  peer       \* Null, or the Module of another generation: the record of its state

vars == <<names, bound, modules, members, pc, idx, snap, ctx, source, result, frozen,
          emit, peer>>

Result(op, ok, val, name) == [op |-> op, ok |-> ok, val |-> val, name |-> name]
NoResult == Result("none", TRUE, "", 0)

\* Whether a Names.resolve() has completed.
Resolved == frozen # Null

\* new Module(path)
Init ==
  /\ names = <<>>
  /\ bound = <<>>
  /\ modules = <<>>
  /\ members = <<>>
  /\ pc = "idle"
  /\ idx = 0
  /\ snap = 0
  /\ ctx = Null
  /\ source = <<>>
  /\ result = NoResult
  /\ frozen = Null
  /\ emit = Null
  /\ peer = Null

(***************************************************************************)
(* Calls a caller of the Module, or a member's apply/render callback,      *)
(* makes.  render() is synchronous, so they happen when no render() is in  *)
(* flight or inside a callback, which is every value of pc.                *)
(***************************************************************************)
\* Module.add(member)
ModuleAdd ==
  /\ Len(members) < MaxMembers
  /\ members' = Append(members, [applied |-> FALSE])
  /\ result' = Result("add", TRUE, "", 0)
  /\ UNCHANGED <<names, bound, modules, pc, idx, snap, ctx, source, frozen>>
  /\ UNCHANGED <<emit, peer>>

\* Module.name(name, usage)
ModuleName(name, usage) ==
  LET r == NamesAdd(names, bound, name, usage)
  IN /\ Len(names) < MaxNames
     /\ names' = r.heap
     /\ bound' = r.bound
     /\ result' = IF r.ok THEN Result("name", TRUE, "", r.id)
                  ELSE Result("name", FALSE, "Duplicate " \o usage, 0)
     /\ UNCHANGED <<modules, members, pc, idx, snap, ctx, source, frozen>>
     /\ UNCHANGED <<emit, peer>>

\* Module.import(src, name, options)
ModuleImport(src, name, options) ==
  /\ \E used \in {ImportsUse(modules, src, name, options)} :
       /\ NumImports(used) <= MaxImports
       /\ modules' = used
  /\ result' = Result("import", TRUE, "", 0)
  /\ UNCHANGED <<names, bound, members, pc, idx, snap, ctx, source, frozen>>
  /\ UNCHANGED <<emit, peer>>

\* The Binding of Module.name(): Name.token bound to the Name id.
InvokeNameBinding(id) ==
  /\ id \in 1..Len(names)
  /\ result' = LET t == NameToken(names[id]) IN Result("binding", t.ok, t.val, id)
  /\ UNCHANGED <<names, bound, modules, members, pc, idx, snap, ctx, source, frozen>>
  /\ UNCHANGED <<emit, peer>>

\* The Binding of Module.get(name): () => this.names.getDeclared(name).token()
InvokeGetBinding(name) ==
  /\ result' = LET id == NamesGetDeclared(names, bound, name)
               IN IF id = 0 THEN Result("binding", FALSE, "not declared in module", 0)
                  ELSE LET t == NameToken(names[id]) IN Result("binding", t.ok, t.val, id)
  /\ UNCHANGED <<names, bound, modules, members, pc, idx, snap, ctx, source, frozen>>
  /\ UNCHANGED <<emit, peer>>

\* The Binding of Module.import(): Import.token bound to member k of source i.
InvokeImportBinding(i, k) ==
  /\ i \in 1..Len(modules)
  /\ k \in 1..Len(modules[i].members)
  /\ result' = LET imp == modules[i].members[k]
                   t == ImportToken(imp, names)
               IN Result("binding", t.ok, t.val, imp.name)
  /\ UNCHANGED <<names, bound, modules, members, pc, idx, snap, ctx, source, frozen>>
  /\ UNCHANGED <<emit, peer>>

(***************************************************************************)
(* Module.render(ctx), cut where it calls a member.                        *)
(***************************************************************************)
\* render() returns or throws.
Finish(r) ==
  /\ pc' = "idle"
  /\ idx' = 0
  /\ snap' = 0
  /\ source' = <<>>
  /\ result' = Result("render", r.ok, r.val, 0)

\* Mutant of ModuleOutput: the empty fragments are joined like the others.
ModuleOutputUnfiltered(fragments) == Join(fragments, "\n\n")

\* source.filter(Boolean).join("\n\n")
ModuleOutput(fragments) == Join(SelectSeq(fragments, LAMBDA f : f # ""), "\n\n")

\* The render loop over the first n members from member i on, `fragments`
\* collected so far: a
\* ClosureGenerator that was not applied throws, another one is called.
RenderFrom(mems, n, i, fragments) ==
  IF i > n THEN Finish(Ok(ModuleOutput(fragments)))
  ELSE IF ~mems[i].applied THEN Finish(Err("apply() was not called"))
  ELSE /\ pc' = "render"
       /\ idx' = i
       /\ snap' = n
       /\ source' = fragments
       /\ result' = NoResult

\* Mutant of AfterApply: Names.resolve runs before Imports.apply.
AfterApplyResolveFirst(mems, c) ==
  \E r \in {NamesResolve(names, bound)} :
    \E a \in {ImportsApply(modules, r.heap, r.bound)} :
      \E block \in {ImportsRender(a.mods, a.heap, c)} :
        /\ emit = Null => Len(a.heap) <= MaxNames
        /\ modules' = a.mods
        /\ names' = a.heap
        /\ bound' = a.bound
        /\ frozen' = Some(Len(a.heap))
        /\ IF block.ok THEN RenderFrom(mems, Len(mems), 1, <<block.val>>) ELSE Finish(block)

\* After the last member's apply: Imports.apply, Names.resolve, then the
\* render loop over [this.imports, ...this.members].
AfterApply(mems, c) ==
  \E a \in {ImportsApply(modules, names, bound)} :
    \E r \in {NamesResolve(a.heap, a.bound)} :
      \E block \in {ImportsRender(a.mods, r.heap, c)} :
        /\ emit = Null => Len(a.heap) <= MaxNames
        /\ modules' = a.mods
        /\ names' = r.heap
        /\ bound' = r.bound
        /\ frozen' = Some(Len(a.heap))
        /\ IF block.ok THEN RenderFrom(mems, Len(mems), 1, <<block.val>>) ELSE Finish(block)

\* render(ctx) is called.
ModuleRender(c) ==
  /\ pc = "idle"
  /\ ctx' = Some(c)
  /\ IF Len(members) > 0
     THEN /\ pc' = "apply"
          /\ idx' = 1
          /\ snap' = Len(members)
          /\ source' = <<>>
          /\ result' = NoResult
          /\ UNCHANGED <<names, bound, modules, members, frozen>>
     ELSE /\ AfterApply(members, c)
          /\ UNCHANGED members
  /\ UNCHANGED <<emit, peer>>

\* The apply() of member idx returns: ClosureGenerator.apply has set its render.
ApplyReturn ==
  /\ pc = "apply"
  /\ LET mems == [members EXCEPT ![idx].applied = TRUE]
     IN /\ members' = mems
        /\ IF idx < snap
           THEN /\ idx' = idx + 1
                /\ result' = NoResult
                /\ UNCHANGED <<names, bound, modules, pc, snap, source, frozen>>
           ELSE AfterApply(mems, ctx[1])
  /\ UNCHANGED ctx
  /\ UNCHANGED <<emit, peer>>

\* The render() of member idx returns a fragment.
RenderReturn(fragment) ==
  /\ pc = "render"
  /\ RenderFrom(members, snap, idx + 1, Append(source, fragment))
  /\ UNCHANGED <<names, bound, modules, members, ctx, frozen>>
  /\ UNCHANGED <<emit, peer>>

\* The callback lets the error of the call it just made escape: render() throws.
CallbackThrows ==
  /\ pc \in {"apply", "render"}
  /\ ~result.ok
  /\ Finish(Err(result.val))
  /\ UNCHANGED <<names, bound, modules, members, ctx, frozen>>
  /\ UNCHANGED <<emit, peer>>

(***************************************************************************)
(* emitVersion(schema, engine), cut at each Module.add() and, inside       *)
(* Module.render(), at each member: `emit` holds the arguments and `next`, *)
(* 0 before resourceBase() has run, then the index of the Definition to    *)
(* compile next.                                                           *)
(***************************************************************************)
Tables == [heap |-> names, bound |-> bound, mods |-> modules]

\* Module.add(member) of a function: the ClosureGenerator that holds it.
AddGenerator(g) ==
  /\ members' = Append(members, [applied |-> FALSE, gen |-> g])
  /\ result' = Result("add", TRUE, "", 0)

\* emitVersion throws before it calls Module.render().
EmitThrows(message) ==
  /\ result' = Result("emit", FALSE, message, 0)
  /\ UNCHANGED members

\* emitVersion is called: new Module(path), module.add(apiVersion).
EmitVersion(schema, engine) ==
  /\ emit = Null
  /\ members = <<>> /\ names = <<>> /\ modules = <<>> /\ ctx = Null
  /\ emit' = Some([schema |-> schema, engine |-> engine, next |-> 0])
  /\ AddGenerator([kind |-> "apiVersion"])
  /\ UNCHANGED <<names, bound, modules, pc, idx, snap, ctx, source, frozen, peer>>

\* const resource = resourceBase(definitions); if (resource != null) module.add(resource)
EmitResourceBase ==
  /\ emit # Null
  /\ emit[1].next = 0
  /\ result.op # "emit"
  /\ \E r \in {ResourceBase(emit[1].schema.definitions)} :
       IF ~r.ok THEN EmitThrows(r.val) /\ UNCHANGED emit
       ELSE /\ emit' = Some([emit[1] EXCEPT !.next = 1])
            /\ IF r.val = Null THEN UNCHANGED <<members, result>>
               ELSE AddGenerator(r.val[1])
  /\ UNCHANGED <<names, bound, modules, pc, idx, snap, ctx, source, frozen, peer>>

\* module.add(gen.definition(definition)) of the next Definition
EmitDefinition ==
  /\ emit # Null
  /\ emit[1].next \in 1..Len(emit[1].schema.definitions)
  /\ result.op # "emit"
  /\ \E g \in {GenDefinition(emit[1].schema.definitions[emit[1].next])} :
       IF ~g.ok THEN EmitThrows(g.val) /\ UNCHANGED emit
       ELSE /\ emit' = Some([emit[1] EXCEPT !.next = @ + 1])
            /\ AddGenerator(g.val)
  /\ UNCHANGED <<names, bound, modules, pc, idx, snap, ctx, source, frozen, peer>>

\* return module.render(new Context(schema, module, engine))
EmitRender ==
  /\ emit # Null
  /\ emit[1].next > Len(emit[1].schema.definitions)
  /\ ctx = Null
  /\ ModuleRender(NewContext(emit[1].schema, emit[1].engine))

\* Inside generator.apply(this) of member idx: ClosureGenerator.apply runs
\* the first stage, whose calls are made on the Module.
EmitApply ==
  /\ emit # Null
  /\ pc = "apply"
  /\ result.op = "none"
  /\ \E r \in {MakeCalls(GeneratorCalls(members[idx].gen), Tables)} :
       /\ names' = r.st.heap
       /\ bound' = r.st.bound
       /\ modules' = r.st.mods
       /\ result' = Result("calls", r.ok, r.val, 0)
  /\ UNCHANGED <<members, pc, idx, snap, ctx, source, frozen, emit, peer>>

\* ... and the first stage returns: ClosureGenerator.apply returns.
EmitApplyReturn ==
  /\ emit # Null
  /\ result.op = "calls"
  /\ result.ok
  /\ ApplyReturn

\* Inside generator.render(ctx) of member idx: the second stage runs.
EmitRenderMember ==
  /\ emit # Null
  /\ pc = "render"
  /\ result.op = "none"
  /\ \E f \in {GeneratorRender(members[idx].gen, Tables, ctx[1])} :
       result' = Result("text", f.ok, f.val, 0)
  /\ UNCHANGED <<names, bound, modules, members, pc, idx, snap, ctx, source, frozen, emit, peer>>

\* ... and it returns its text.
EmitRenderReturn ==
  /\ emit # Null
  /\ result.op = "text"
  /\ result.ok
  /\ RenderReturn(result.val)

\* ... or a call of either stage has thrown: Module.render() throws.
EmitCallbackThrows ==
  /\ emit # Null
  /\ CallbackThrows

\* emitVersion has returned or thrown; `result` is its outcome.
EmitDone == emit # Null /\ pc = "idle" /\ result.op \in {"emit", "render"}

(***************************************************************************)
(* Inputs.                                                                 *)
(***************************************************************************)
Usages == {"declaration", "import"}
Tokens == {"A", "A_"}
Fragments == {"m"}

DenoContext == [engine |-> "deno", dependencies |-> [p \in {"a"} |-> "1.0"], path |-> "v1.ts"]
NodeContext == [engine |-> "node", dependencies |-> [p \in {"a"} |-> "1.0"], path |-> "v1.ts"]

LocalX == <<"local", "x.ts">>
ApiAB == <<"api", "a:b">>
ApiA_B == <<"api", "a", "b">>

LocalGX == <<"local", "g/x.ts">>

\* A Context whose module lies in the directory g.
NestedContext == [engine |-> "node", dependencies |-> [p \in {"a"} |-> "1.0"], path |-> "g/v1.ts"]

Sources == {ApiAB, ApiA_B, LocalX}
OrderSources == {LibSchema, ApiAB, LocalX, LocalGX}
OrderOptions == {NoOptions, Options(Null, Some(TRUE))}
Members == {"A", "B"}
OptionSet ==
  { NoOptions,
    Options(Null, Some(TRUE)),
    Options(Null, Some(FALSE)),
    Options(Some("X"), Null),
    Options(Some("Y"), Some(TRUE)) }

(***************************************************************************)
(* Inputs of emitVersion.                                                  *)
(***************************************************************************)
Engines == {"deno", "node"}

Property(name, required, value) ==
  [name |-> name, required |-> required, value |-> value,
   description |-> Null, deprecated |-> FALSE]

Definition(name, value) ==
  [name |-> name, value |-> value, description |-> Null, deprecated |-> FALSE]

StringType == [type |-> "string", enum |-> Null]
ColorEnum == [type |-> "string", enum |-> Some(<<"red", "green">>)]
ObjectType(properties) == [type |-> "object", properties |-> properties, inherit |-> <<>>]
ResourceType(properties, scope) ==
  [type |-> "resource", properties |-> properties, scope |-> scope]

\* A reference to `name` of this module, of version v1 of the package meta,
\* of version v2 of this group.
LocalRef(name) == [type |-> "reference", target |-> [scope |-> Null, name |-> name]]
MetaRef(name) ==
  [type |-> "reference",
   target |-> [scope |-> Some([package |-> Some("meta"),
                               group |-> [name |-> Some("meta"), module |-> Null],
                               version |-> "v1"]),
               name |-> name]]
SiblingRef(name) ==
  [type |-> "reference",
   target |-> [scope |-> Some([package |-> Null,
                               group |-> [name |-> Some("g"), module |-> Null],
                               version |-> "v2"]),
               name |-> name]]

\* The sequences of at most n elements of a set.
RECURSIVE SeqsUpTo(_, _)
SeqsUpTo(S, n) ==
  IF n = 0 THEN {<<>>}
  ELSE LET shorter == SeqsUpTo(S, n - 1)
       IN shorter \cup {Append(q, x) : q \in shorter, x \in S}

\* The schemas of group g, version v1, depending on meta 1.0, whose
\* Definitions are taken from a pool.
SchemasOf(pool) ==
  {[group |-> [name |-> Some("g"), module |-> Null],
    version |-> "v1",
    dependencies |-> <<[package |-> "meta", version |-> "1.0"]>>,
    definitions |-> defs] : defs \in SeqsUpTo(pool, MaxDefinitions)}

\* emitVersion, from its call to its return or throw.
NextEmit(schemas) ==
  \/ \E schema \in schemas, engine \in Engines : EmitVersion(schema, engine)
  \/ EmitResourceBase
  \/ EmitDefinition
  \/ EmitRender
  \/ EmitApply
  \/ EmitApplyReturn
  \/ EmitRenderMember
  \/ EmitRenderReturn
  \/ EmitCallbackThrows

(***************************************************************************)
(* SpecResource: emitVersion on schemas of resource Definitions whose      *)
(* "metadata" property is missing, not a reference, single or double.      *)
(***************************************************************************)
Metadata(value) == Property("metadata", TRUE, value)
SpecField == Property("spec", FALSE, StringType)

ResourcePool ==
  { Definition("Pod", ResourceType(<<Metadata(MetaRef("ObjectMeta")), SpecField>>, "namespace")),
    Definition("Job", ResourceType(<<SpecField, Metadata(SiblingRef("ObjectMeta"))>>, "cluster")),
    Definition("Pod", ResourceType(<<SpecField>>, "namespace")),
    Definition("Pod", ResourceType(<<Metadata(StringType)>>, "namespace")),
    Definition("Pod", ResourceType(<<Metadata(MetaRef("ObjectMeta")),
                                     Metadata(MetaRef("ObjectMeta"))>>, "namespace")),
    Definition("Color", ColorEnum) }

NextResource == NextEmit(SchemasOf(ResourcePool))

SpecResource == Init /\ [][NextResource]_vars

(***************************************************************************)
(* SpecProperties: emitVersion on schemas of object Definitions with one   *)
(* property, required or not, of a plain, optional, array or reference     *)
(* type.                                                                   *)
(***************************************************************************)
OptionalType(value) == [type |-> "optional", value |-> value]
ArrayType(values) == [type |-> "array", values |-> values]

PropertyTypes ==
  {StringType, OptionalType(StringType), ArrayType(StringType), MetaRef("ObjectMeta")}

PropertyPool ==
  {Definition("Spec", ObjectType(<<Property("p", required, value)>>)) :
     required \in BOOLEAN, value \in PropertyTypes}

NextProperties == NextEmit(SchemasOf(PropertyPool))

SpecProperties == Init /\ [][NextProperties]_vars

(***************************************************************************)
(* SpecReference: emitVersion on schemas whose Definitions refer to B of   *)
(* this module, with or without a declaration of B and an import of a      *)
(* member of the same spelling.                                            *)
(***************************************************************************)
ReferencePool ==
  { Definition("A", LocalRef("B")),
    Definition("B", StringType),
    Definition("C", ObjectType(<<Property("p", TRUE, LocalRef("B")),
                                 Property("q", TRUE, MetaRef("B"))>>)),
    Definition("D", ArrayType(MetaRef("B"))) }

NextReference == NextEmit(SchemasOf(ReferencePool))

SpecReference == Init /\ [][NextReference]_vars

(***************************************************************************)
(* Two generations.  `peer` holds the state of the generation that is not  *)
(* running: its Module (identifier table, import table, member list), its  *)
(* Context and its position.  Switch hands control to it, at any step of   *)
(* the running one; the first Switch starts it on a Module of its own.     *)
(***************************************************************************)
\* The state of the running generation.
Generation ==
  [names |-> names, bound |-> bound, modules |-> modules, members |-> members,
   pc |-> pc, idx |-> idx, snap |-> snap, ctx |-> ctx, source |-> source,
   result |-> result, frozen |-> frozen, emit |-> emit]

\* new Module(path), before emitVersion has added a member.
FreshGeneration ==
  [names |-> <<>>, bound |-> <<>>, modules |-> <<>>, members |-> <<>>,
   pc |-> "idle", idx |-> 0, snap |-> 0, ctx |-> Null, source |-> <<>>,
   result |-> NoResult, frozen |-> Null, emit |-> Null]

\* Mutant of Activate: one identifier table for all Modules.
ActivateSharedNames(g) ==
  /\ UNCHANGED <<names, bound>>
  /\ modules' = g.modules
  /\ members' = g.members
  /\ pc' = g.pc
  /\ idx' = g.idx
  /\ snap' = g.snap
  /\ ctx' = g.ctx
  /\ source' = g.source
  /\ result' = g.result
  /\ frozen' = g.frozen
  /\ emit' = g.emit

\* Mutant of Activate: one import table for all Modules.
ActivateSharedImports(g) ==
  /\ UNCHANGED modules
  /\ names' = g.names
  /\ bound' = g.bound
  /\ members' = g.members
  /\ pc' = g.pc
  /\ idx' = g.idx
  /\ snap' = g.snap
  /\ ctx' = g.ctx
  /\ source' = g.source
  /\ result' = g.result
  /\ frozen' = g.frozen
  /\ emit' = g.emit

\* The generation g runs on: every field of a Module is an instance field
\* set by its constructor, so the running generation works on g's own.
Activate(g) ==
  /\ names' = g.names
  /\ bound' = g.bound
  /\ modules' = g.modules
  /\ members' = g.members
  /\ pc' = g.pc
  /\ idx' = g.idx
  /\ snap' = g.snap
  /\ ctx' = g.ctx
  /\ source' = g.source
  /\ result' = g.result
  /\ frozen' = g.frozen
  /\ emit' = g.emit

\* Control passes from the running generation to the other one.
Switch ==
  /\ emit # Null
  /\ Activate(IF peer = Null THEN FreshGeneration ELSE peer[1])
  /\ peer' = Some(Generation)

\* emitVersion from its call to its return or throw, without a cut: the
\* member list, then both stages of Module.render().
EmitMembers(schema) ==
  LET defs == schema.definitions
      base == ResourceBase(defs)
      gens == [i \in 1..Len(defs) |-> GenDefinition(defs[i])]
      bad == {i \in 1..Len(defs) : ~gens[i].ok}
  IN IF ~base.ok THEN base
     ELSE IF bad # {} THEN gens[FirstOf(bad)]
     ELSE Ok(<<[kind |-> "apiVersion"]>> \o
             (IF base.val = Null THEN <<>> ELSE <<base.val[1]>>) \o
             [i \in 1..Len(defs) |-> gens[i].val])

EmitOutcome(schema, engine) ==
  LET ms == EmitMembers(schema)
      c == NewContext(schema, engine)
  IN IF ~ms.ok THEN ms
     ELSE LET applied == MakeCalls(Flatten([k \in 1..Len(ms.val) |-> GeneratorCalls(ms.val[k])]),
                                   [heap |-> <<>>, bound |-> <<>>, mods |-> <<>>])
              a == ImportsApply(applied.st.mods, applied.st.heap, applied.st.bound)
              r == NamesResolve(a.heap, a.bound)
              st == [heap |-> r.heap, bound |-> r.bound, mods |-> a.mods]
              block == ImportsRender(a.mods, r.heap, c)
              texts == [k \in 1..Len(ms.val) |-> GeneratorRender(ms.val[k], st, c)]
              bad == {k \in 1..Len(ms.val) : ~texts[k].ok}
          IN IF ~applied.ok THEN Err(applied.val)
             ELSE IF ~block.ok THEN block
             ELSE IF bad # {} THEN texts[FirstOf(bad)]
             ELSE Ok(ModuleOutput(<<block.val>> \o [k \in 1..Len(ms.val) |-> texts[k].val]))

(***************************************************************************)
(* SpecTwo: two generations on schemas of an object that refers to B of    *)
(* this module and imports a member B, and of a declaration of B.          *)
(***************************************************************************)
TwoPool ==
  { Definition("A", ObjectType(<<Property("p", TRUE, LocalRef("B")),
                                 Property("q", FALSE, MetaRef("B"))>>)),
    Definition("B", StringType) }

NextTwo ==
  \/ NextEmit(SchemasOf(TwoPool))
  \/ Switch

SpecTwo == Init /\ [][NextTwo]_vars

(***************************************************************************)
(* SpecLocal: emitVersion on schemas in which A refers to B of this module *)
(* and B is a Definition of each kind: alias, object, resource, reference  *)
(* under another name and reference under its target's name.               *)
(***************************************************************************)
LocalPool ==
  { Definition("A", LocalRef("B")),
    Definition("B", StringType),
    Definition("B", ObjectType(<<>>)),
    Definition("B", ResourceType(<<Metadata(MetaRef("ObjectMeta"))>>, "namespace")),
    Definition("B", MetaRef("ObjectMeta")),
    Definition("B", MetaRef("B")) }

NextLocal == NextEmit(SchemasOf(LocalPool))

SpecLocal == Init /\ [][NextLocal]_vars

(***************************************************************************)
(* SpecReexport: emitVersion on schemas of reference Definitions, to B of  *)
(* the package meta and to B of the sibling version, under the target's    *)
(* name and under another one.                                             *)
(***************************************************************************)
ReexportPool ==
  { Definition("A", MetaRef("B")),
    Definition("B", MetaRef("B")),
    Definition("B", SiblingRef("B")),
    Definition("C", SiblingRef("B")) }

NextReexport == NextEmit(SchemasOf(ReexportPool))

SpecReexport == Init /\ [][NextReexport]_vars

(***************************************************************************)
(* Spec: a Module with members, used from their callbacks and from outside *)
(* through add(), name(), get(), import(), the Bindings and render().      *)
(***************************************************************************)
Next ==
  \/ ModuleAdd
  \/ \E u \in Usages : ModuleName("A", u)
  \/ \E src \in {LibSchema, LocalX} : ModuleImport(src, "A", NoOptions)
  \/ \E id \in 1..MaxNames : InvokeNameBinding(id)
  \/ \E t \in Tokens : InvokeGetBinding(t)
  \/ \E i \in 1..2 : InvokeImportBinding(i, 1)
  \/ ModuleRender(DenoContext)
  \/ ApplyReturn
  \/ \E f \in Fragments : RenderReturn(f)
  \/ CallbackThrows

Spec == Init /\ [][Next]_vars

(***************************************************************************)
(* SpecNames: a Module without members, its caller registering every token *)
(* and usage of the identifier table.                                      *)
(***************************************************************************)
NextNames ==
  \/ \E t \in Tokens, u \in Usages : ModuleName(t, u)
  \/ \E src \in {LibSchema, LocalX} : ModuleImport(src, "A", NoOptions)
  \/ ModuleRender(DenoContext)

SpecNames == Init /\ [][NextNames]_vars

(***************************************************************************)
(* SpecImports: a Module without members whose caller keeps to the         *)
(* protocol (requests before render(), one render()), using every source,  *)
(* member and option of the import table.                                  *)
(***************************************************************************)
NextImports ==
  \/ (~Resolved /\ ModuleName("A", "declaration"))
  \/ (~Resolved /\ \E src \in Sources, m \in Members, o \in OptionSet : ModuleImport(src, m, o))
  \/ (~Resolved /\ \E c \in {DenoContext, NodeContext} : ModuleRender(c))

SpecImports == Init /\ [][NextImports]_vars

(***************************************************************************)
(* SpecOrder: a Module without members whose caller keeps to the protocol  *)
(* and imports from two remote and two local sources, rendered for a       *)
(* module at the root and for one in a directory.                          *)
(***************************************************************************)
NextOrder ==
  \/ (~Resolved /\ \E src \in OrderSources, m \in Members, o \in OrderOptions : ModuleImport(src, m, o))
  \/ (~Resolved /\ \E c \in {DenoContext, NodeContext, NestedContext} : ModuleRender(c))

SpecOrder == Init /\ [][NextOrder]_vars

(***************************************************************************)
(* SpecHosted: a Module without members whose caller keeps to the protocol *)
(* and imports from the package kubernetes and from the package a,         *)
(* rendered with and without entries for them in the dependencies.         *)
(***************************************************************************)
Kubernetes == <<"api", "kubernetes", "v1.ts">>

HostedSources == {Kubernetes, ApiA_B}

HostedContexts ==
  { [engine |-> engine, dependencies |-> [p \in pkgs |-> "1.0"], path |-> "v1.ts"] :
      engine \in Engines, pkgs \in {{}, {"a", "kubernetes"}} }

NextHosted ==
  \/ (~Resolved /\ \E src \in HostedSources, m \in Members, o \in OrderOptions : ModuleImport(src, m, o))
  \/ (~Resolved /\ \E c \in HostedContexts : ModuleRender(c))

SpecHosted == Init /\ [][NextHosted]_vars

(***************************************************************************)
(* SpecRender: a Module whose caller keeps to the protocol (members and    *)
(* imports before one render()), the render of member k returning an       *)
(* empty fragment or the fragment of member k.                             *)
(***************************************************************************)
MemberFragment(k) == "m" \o ToString(k)

NextRender ==
  \/ (ctx = Null /\ ModuleAdd)
  \/ (ctx = Null /\ ModuleName("A", "declaration"))
  \/ (ctx = Null /\ \E src \in {LibSchema, LocalX} : ModuleImport(src, "A", NoOptions))
  \/ (ctx = Null /\ ModuleRender(DenoContext))
  \/ ApplyReturn
  \/ \E f \in {"", MemberFragment(idx)} : RenderReturn(f)

SpecRender == Init /\ [][NextRender]_vars

(***************************************************************************)
(* Properties of the identifier table (SpecNames).                         *)
(***************************************************************************)
\* The last call was a render(): every Name of the heap was registered
\* before the Names.resolve() that has just run.
JustRendered == result.op = "render"

Declarations == {id \in 1..Len(names) : names[id].usage = "declaration"}
RawNamed(token) == {id \in 1..Len(names) : names[id].declared = token}

\* C1: after Names.resolve(), every Name registered with usage
\* "declaration" is spelled with its raw name, whatever imports of the same
\* raw name were registered with it.
C1_DeclarationsKeepRawName ==
  JustRendered =>
    \A id \in Declarations : names[id].resolved = Some(names[id].declared)

\* C1 witness: resolve() has run on a declaration registered after an import
\* of the same raw name.
C1_Witness ==
  /\ JustRendered
  /\ \E d \in Declarations : \E i \in RawNamed(names[d].declared) :
       names[i].usage = "import" /\ i < d

\* C2 (as claimed): after Names.resolve(), two distinct Names of the Module
\* never have the same resolved spelling.
C2_CollisionFree ==
  JustRendered =>
    \A i, j \in 1..Len(names) : i # j => names[i].resolved # names[j].resolved

\* C4: after Names.resolve(), the list of every raw name holds its
\* declarations before its imports, registration order kept among equals, and
\* the Name at position 0 is spelled <raw>, at position 1 <raw>_, at position
\* i >= 2 <raw>_<i>.
C4_SpellingByPosition ==
  JustRendered =>
    \A e \in 1..Len(bound) :
      LET list == bound[e].names
          raw == bound[e].key
      IN \A p \in 1..Len(list) :
           /\ names[list[p]].declared = raw
           /\ \A q \in 1..Len(list) :
                p < q => \/ NameWeight(names[list[p]]) < NameWeight(names[list[q]])
                         \/ /\ names[list[p]].usage = names[list[q]].usage
                            /\ list[p] < list[q]
           /\ names[list[p]].resolved =
                Some(CASE p = 1 -> raw
                       [] p = 2 -> raw \o "_"
                       [] p = 3 -> raw \o "_2"
                       [] p = 4 -> raw \o "_3"
                       [] OTHER -> raw \o "_" \o ToString(p - 1))

\* C4 witness: resolve() has run on three Names of one raw name, the
\* declaration registered after an import.
C4_Witness ==
  /\ JustRendered
  /\ \E e \in 1..Len(bound) :
       /\ Len(bound[e].names) >= 3
       /\ names[bound[e].names[1]].usage = "declaration"
       /\ bound[e].names[1] > bound[e].names[2]

\* C5: Names.add(token, "declaration") fails exactly when a declaration of
\* the same raw name is registered, and then leaves the identifier table as
\* it was; Names.add(token, "import") never fails.
C5_DuplicateDeclaration ==
  [][\A t \in Tokens, u \in Usages :
       ModuleName(t, u) =>
         LET declared == \E id \in Declarations : names[id].declared = t
         IN /\ result'.ok <=> ~(u = "declaration" /\ declared)
            /\ ~result'.ok => names' = names /\ bound' = bound
            /\ result'.ok =>
                 /\ Len(names') = Len(names) + 1
                 /\ names'[Len(names')] = NewName(t, u)
                 /\ \A id \in 1..Len(names) : names'[id] = names[id]]_vars

\* C5 witness: a second declaration of a raw name has been rejected.
C5_Witness ==
  /\ result.op = "name"
  /\ ~result.ok
  /\ \E id \in RawNamed("A") : names[id].usage = "import"

ImportOf(mods, src, m) ==
  LET i == UrnIndex(mods, ImportUrn(src))
  IN mods[i].members[MemberIndex(mods[i].members, m)]

HasImport(mods, src, m) ==
  /\ UrnIndex(mods, ImportUrn(src)) # 0
  /\ MemberIndex(mods[UrnIndex(mods, ImportUrn(src))].members, m) # 0

\* A fresh Module on which use() is called for each of `calls`, in order, and
\* which is then applied and resolved.
RECURSIVE UseAll(_, _)
UseAll(mods, calls) ==
  IF Len(calls) = 0 THEN mods
  ELSE UseAll(ImportsUse(mods, calls[1].src, calls[1].name, calls[1].options), Tail(calls))

FreshRun(calls) ==
  LET a == ImportsApply(UseAll(<<>>, calls), <<>>, <<>>)
      r == NamesResolve(a.heap, a.bound)
  IN [mods |-> a.mods, heap |-> r.heap]

SpellingIn(run, src, m) == run.heap[ImportOf(run.mods, src, m).name].resolved

\* The Module holds two imports of one raw name from two sources, and nothing else.
TwoSourcesOneName ==
  /\ JustRendered
  /\ Len(modules) = 2
  /\ Len(names) = 2
  /\ \A i \in 1..2 : Len(modules[i].members) = 1 /\ modules[i].members[1].as = Null
  /\ modules[1].members[1].member = modules[2].members[1].member

\* C3 (as claimed): two imports of one raw name from two sources resolve to
\* `name` and `name_`, and each source has the spelling it has when the two
\* use() calls are made in the other order.
C3_SpellingIgnoresCallOrder ==
  TwoSourcesOneName =>
    LET m == modules[1].members[1].member
        call(i) == [src |-> modules[i].src, name |-> m,
                    options |-> Options(Null, Some(modules[i].members[1].type))]
        other == FreshRun(<<call(2), call(1)>>)
        spelling(i) == names[modules[i].members[1].name].resolved
    IN /\ {spelling(1), spelling(2)} = {Some(m), Some(m \o "_")}
       /\ \A i \in 1..2 : spelling(i) = SpellingIn(other, modules[i].src, m)

\* A use() whose options ask for the value: `type` false or not given.
ValueRequiring(o) == o = Null \/ o[1].type # Some(TRUE)

\* C7 (as claimed): a value-requiring use() leaves the Import of its
\* (source, member) pair value-required, and a value-required Import stays
\* so, hence it is value-required when the import block is rendered.
C7_ValueUseWins ==
  [][/\ \A src \in Sources, m \in Members, o \in OptionSet :
          (ModuleImport(src, m, o) /\ ValueRequiring(o)) =>
            ~ImportOf(modules', src, m).type
     /\ \A i \in 1..Len(modules) : \A k \in 1..Len(modules[i].members) :
          ~modules[i].members[k].type => ~modules'[i].members[k].type]_vars

\* C8 (as claimed): after use(src, m) the table holds one ImportedModule of
\* the source src, and in it one Import of m: a source is never put into the
\* ImportedModule of a source with another identity.
C8_OneImportPerSourceMember ==
  [][\A src \in Sources, m \in Members, o \in OptionSet :
       ModuleImport(src, m, o) =>
         LET holders == {i \in 1..Len(modules') : modules'[i].src = src}
         IN /\ Cardinality(holders) = 1
            /\ \A i \in holders :
                 Cardinality({k \in 1..Len(modules'[i].members) :
                                modules'[i].members[k].member = m}) = 1]_vars

\* The alias of the Import of (src, m) in a table, wrapped; <<>> when the
\* table has no such Import.
AliasOf(mods, src, m) ==
  LET i == UrnIndex(mods, ImportUrn(src))
  IN IF i = 0 THEN <<>>
     ELSE LET k == MemberIndex(mods[i].members, m)
          IN IF k = 0 THEN <<>> ELSE <<mods[i].members[k].as>>

\* C9: an alias an Import has is never changed by a later use(), whether it
\* brings another alias or none; an Import without alias takes the alias of
\* the first use() that supplies one.
C9_AliasSticky ==
  [][/\ \A i \in 1..Len(modules) : \A k \in 1..Len(modules[i].members) :
          modules[i].members[k].as # Null =>
            modules'[i].members[k].as = modules[i].members[k].as
     /\ result'.op = "import" =>
          \A src \in Sources, m \in Members :
            \A had \in {AliasOf(modules, src, m)}, now \in {AliasOf(modules', src, m)} :
              \A o \in OptionSet :
                \* ModuleImport(src, m, o) => the alias rule, as a disjunction
                \* whose cheap disjuncts come first
                \/ now = <<>>
                \/ IF had # <<>> /\ had[1] # Null THEN now[1] = had[1]
                   ELSE IF o # Null /\ Truthy(o[1].as) THEN now[1] = o[1].as
                   ELSE now[1] = Null
                \/ ~ModuleImport(src, m, o)]_vars

\* C9 witness: an Import that got its alias with a type-only use() has met a
\* later value-requiring use() and kept the alias.
C9_Witness ==
  \E i \in 1..Len(modules) : \E k \in 1..Len(modules[i].members) :
    modules[i].members[k].as = Some("Y") /\ ~modules[i].members[k].type

\* The statement Imports.render() owes a source whose members have no alias
\* and were not renamed: `import type` when all are type-only, else `import`
\* with the type-only members marked.
StatementOf(imported, path) ==
  LET allType == \A k \in 1..Len(imported.members) : imported.members[k].type
      has(m) == MemberIndex(imported.members, m) # 0
      item(m) == LET imp == imported.members[MemberIndex(imported.members, m)]
                 IN (IF imp.type /\ ~allType THEN "type " ELSE "") \o m
      items == (IF has("A") THEN <<item("A")>> ELSE <<>>) \o
               (IF has("B") THEN <<item("B")>> ELSE <<>>)
  IN (IF allType THEN "import type { " ELSE "import { ") \o Join(items, ", ") \o
     " } from " \o JsonString(path) \o ";"

\* C10: Imports.render() never raises "cannot import value via import type",
\* and the statement of a source is `import type` exactly when every member
\* of the source is type-only.
C10_TypeStatementIffAllTypeOnly ==
  JustRendered =>
    /\ result.val # "cannot import value via import type"
    /\ (/\ Len(modules) = 1
        /\ Declarations = {}
        /\ \A k \in 1..Len(modules[1].members) : modules[1].members[k].as = Null)
       => /\ result.ok
          /\ result.val = StatementOf(modules[1], ImportsPath(modules[1].src, ctx[1]))

\* C10 witness: a source with a type-only and a value-required member has
\* been rendered.
C10_Witness ==
  /\ JustRendered
  /\ \E i \in 1..Len(modules) : \E k, l \in 1..Len(modules[i].members) :
       modules[i].members[k].type /\ ~modules[i].members[l].type

(***************************************************************************)
(* Order of the import block (SpecOrder).                                  *)
(***************************************************************************)
\* The statement of one source, its members taken in ascending order of
\* member name (A, then B), each under the spelling of its Name.
OrderedStatement(imported, heap, path) ==
  LET allType == \A k \in 1..Len(imported.members) : imported.members[k].type
      has(m) == MemberIndex(imported.members, m) # 0
      item(m) == LET imp == imported.members[MemberIndex(imported.members, m)]
                     token == heap[imp.name].resolved[1]
                 IN (IF imp.type /\ ~allType THEN "type " ELSE "") \o
                    (IF token # m THEN m \o " as " \o token ELSE token)
      items == (IF has("A") THEN <<item("A")>> ELSE <<>>) \o
               (IF has("B") THEN <<item("B")>> ELSE <<>>)
  IN (IF allType THEN "import type { " ELSE "import { ") \o Join(items, ", ") \o
     " } from " \o JsonString(path) \o ";"

\* ord lists the sources with every remote one before every local one and,
\* within the remote ones and within the local ones, in ascending order of path.
RemoteFirstByPath(mods, c, ord) ==
  \A p, q \in 1..Len(mods) :
    p < q =>
      LET i == ord[p]
          j == ord[q]
      IN /\ ~(mods[i].src[1] = "local" /\ mods[j].src[1] # "local")
         /\ (mods[i].src[1] = "local") = (mods[j].src[1] = "local") =>
              LocaleRank(ImportsPath(mods[i].src, c)) <= LocaleRank(ImportsPath(mods[j].src, c))

\* The import block whose statements stand in the order ord.
BlockInOrder(mods, heap, c, ord) ==
  LET stmt(p) == OrderedStatement(mods[ord[p]], heap, ImportsPath(mods[ord[p]].src, c))
      positions == [p \in 1..Len(mods) |-> p]
      remote == SelectSeq(positions, LAMBDA p : mods[ord[p]].src[1] # "local")
      local == SelectSeq(positions, LAMBDA p : mods[ord[p]].src[1] = "local")
      block(ps) == Join([k \in 1..Len(ps) |-> stmt(ps[k])], "\n")
  IN Join(SelectSeq(<<block(remote), block(local)>>, LAMBDA b : b # ""), "\n\n")

\* C11: the rendered import block has every statement of a remote source
\* before every statement of a local source, the statements of each bucket in
\* ascending order of computed path, and the members of each statement in
\* ascending order of member name, in whatever order they were requested.
C11_RemoteFirstSorted ==
  JustRendered =>
    /\ result.ok
    /\ \E ord \in Permutations(1..Len(modules)) :
         /\ RemoteFirstByPath(modules, ctx[1], ord)
         /\ result.val = BlockInOrder(modules, names, ctx[1], ord)

\* C11 witness: a block has been rendered whose local source was requested
\* before its remote source.
C11_Witness ==
  /\ JustRendered
  /\ Len(modules) = 2
  /\ modules[1].src[1] = "local"
  /\ modules[2].src[1] # "local"

(***************************************************************************)
(* Properties of the rendering protocol (Spec).                            *)
(***************************************************************************)
\* A call of Module.render() has been made and has ended (ctx keeps the
\* Context of the last call).
RenderHasRun == pc = "idle" /\ ctx # Null

\* C12 (as claimed): once a call of Module.render() has run, another call of
\* render() on the Module is rejected: it throws at once, runs no callback
\* and returns no output.
C12_RendersOnce ==
  [][(RenderHasRun /\ ModuleRender(DenoContext)) =>
       (pc' = "idle" /\ result'.op = "render" /\ ~result'.ok)]_vars

\* C13 (as claimed): a Module.add() made while Module.render() runs (from a
\* member's apply or render) is rejected, and Module.render() never raises
\* "apply() was not called": every member it renders was applied before.
C13_AddOnlyBeforeApplying ==
  /\ (pc # "idle" /\ result.op = "add") => ~result.ok
  /\ result.op = "render" => result.val # "apply() was not called"

(***************************************************************************)
(* The text of Module.render() (SpecRender).                               *)
(***************************************************************************)
\* The fragments that are not empty, one blank line between two of them.
RECURSIVE BlankLineJoined(_)
BlankLineJoined(fs) ==
  IF Len(fs) = 0 THEN ""
  ELSE IF fs[1] = "" THEN BlankLineJoined(Tail(fs))
  ELSE LET rest == BlankLineJoined(Tail(fs))
       IN IF rest = "" THEN fs[1] ELSE fs[1] \o "\n\n" \o rest

\* C14: the text Module.render() returns is the import block, then the
\* fragment of each member in the order the members were added, the empty
\* ones (an empty import block too) dropped, one blank line between two
\* that remain and none before the first or after the last.
C14_BlockThenMembers ==
  [][/\ (members = <<>> /\ ModuleRender(DenoContext)) =>
          result' = Result("render", TRUE, ImportsRender(modules', names', DenoContext).val, 0)
     /\ \A f \in {"", MemberFragment(idx)} :
          (RenderReturn(f) /\ pc' = "idle") =>
            LET block == ImportsRender(modules, names, ctx[1]).val
                frags == Tail(source) \o <<f>>
            IN /\ Len(frags) = Len(members)
               /\ \A k \in 1..Len(frags) : frags[k] \in {"", MemberFragment(k)}
               /\ result' = Result("render", TRUE, BlankLineJoined(<<block>> \o frags), 0)]_vars

\* C14 witness: a Module with an import and two members has been rendered,
\* the first member's fragment empty.
C14_Witness ==
  /\ JustRendered
  /\ Len(members) = 2
  /\ modules # <<>>
  /\ result.val = ImportsRender(modules, names, ctx[1]).val \o "\n\n" \o MemberFragment(2)

(***************************************************************************)
(* Properties of emitVersion on resource Definitions (SpecResource).       *)
(***************************************************************************)
Definitions == emit[1].schema.definitions
Resources == {i \in 1..Len(Definitions) : Definitions[i].value.type = "resource"}

\* The properties of a resource Definition do not include exactly one
\* property named "metadata" whose value is a reference.
BadMetadata(def) ==
  LET props == def.value.properties
      named == {i \in 1..Len(props) : props[i].name = "metadata"}
  IN ~(Cardinality(named) = 1 /\ \A i \in named : props[i].value.type = "reference")

\* C15 (as claimed): emitVersion on a schema with a resource Definition that
\* has no "metadata" property, one that is not a reference, or more than
\* one, never begins Module.render() (no member is applied, no Context
\* made) and ends in a failure.
C15_BadMetadataFailsBeforeRender ==
  (emit # Null /\ \E i \in Resources : BadMetadata(Definitions[i])) =>
    /\ ctx = Null
    /\ \A k \in 1..Len(members) : ~members[k].applied
    /\ EmitDone => ~result.ok

\* The members that are the resource-base alias.
ResourceBases == {k \in 1..Len(members) : members[k].gen.kind = "resourceBase"}

\* C19: once resourceBase() has run, the member list holds one
\* resource-base alias when some Definition is a resource and none
\* otherwise; the alias is built from the "metadata" reference of the first
\* resource Definition, and it is what declares the name Resource.
C19_OneResourceBase ==
  (emit # Null /\ emit[1].next >= 1) =>
    /\ Cardinality(ResourceBases) = IF Resources = {} THEN 0 ELSE 1
    /\ \A k \in ResourceBases :
         LET first == Definitions[CHOOSE i \in Resources : \A j \in Resources : i <= j]
         IN \E p \in 1..Len(first.value.properties) :
              /\ first.value.properties[p].name = "metadata"
              /\ members[k].gen.ref = first.value.properties[p].value
    /\ (EmitDone /\ result.ok) =>
         Cardinality({id \in Declarations : names[id].declared = "Resource"}) =
           IF Resources = {} THEN 0 ELSE 1

\* C19 witness: emitVersion has returned the module of a schema with two
\* resource Definitions whose "metadata" references differ.
C19_Witness ==
  /\ EmitDone
  /\ result.ok
  /\ Cardinality(Resources) = 2
  /\ Definitions[1].name # Definitions[2].name

(***************************************************************************)
(* Properties of gen.property (SpecProperties).                            *)
(***************************************************************************)
\* The text of the value type T of a property made nullable: T | null (an
\* optional type is rendered as a nullable union already).
NullableText(value) ==
  IF value.type = "optional" THEN TypeRender(value, FALSE, Tables).val
  ELSE TypeRender(value, FALSE, Tables).val \o " | null"

\* C16 (as claimed): in the module of a schema with one object Definition
\* of one property p, the property reads `p: T` when p is required and
\* `p?: T | null` when it is not, whatever the tag of T.
C16_OptionalIsNullable ==
  (EmitDone /\ result.ok /\ Len(Definitions) = 1) =>
    LET p == Definitions[1].value.properties[1]
        line == IF p.required
                THEN "  p: " \o TypeRender(p.value, FALSE, Tables).val \o ";"
                ELSE "  p?: " \o NullableText(p.value) \o ";"
    IN result.val =
         BlankLineJoined(<<ImportsRender(modules, names, ctx[1]).val,
                           ApiVersionRender(Tables, ctx[1]).val,
                           "export interface Spec {\n" \o line \o "\n}">>)

(***************************************************************************)
(* Properties of gen.reference (SpecReference).                            *)
(***************************************************************************)
\* The target names of the local references of a type.
RECURSIVE LocalTargets(_)
LocalTargets(t) ==
  CASE t.type = "reference" -> IF t.target.scope = Null THEN {t.target.name} ELSE {}
    [] t.type \in {"array", "map"} -> LocalTargets(t.values)
    [] t.type = "optional" -> LocalTargets(t.value)
    [] t.type = "object" ->
         UNION {LocalTargets(t.properties[i].value) : i \in 1..Len(t.properties)}
    [] OTHER -> {}

\* The local references of the schema whose target has no declaration in
\* the Module.
Undeclared ==
  {n \in UNION {LocalTargets(Definitions[i].value) : i \in 1..Len(Definitions)} :
     NamesGetDeclared(names, bound, n) = 0}

\* Some module of the import table has a member spelled n.
Imported(n) ==
  \E i \in 1..Len(modules) : MemberIndex(modules[i].members, n) # 0

\* C20: when emitVersion has ended and a local reference of an alias, object
\* or array Definition targets a name without declaration in the Module,
\* emitVersion has thrown: no text is returned, neither with the raw name
\* nor with an imported name of the same spelling.
C20_UndeclaredReferenceFails ==
  (EmitDone /\ Undeclared # {}) => ~result.ok

\* emitVersion has thrown on the reference to B, which no Definition
\* declares, while a member B is imported.
C20_Witness ==
  /\ EmitDone
  /\ "B" \in Undeclared
  /\ Imported("B")
  /\ ~result.ok
  /\ result.val = "not declared in module"

(***************************************************************************)
(* Properties of two generations (SpecTwo).                                *)
(***************************************************************************)
\* The generation that is not running has returned or thrown.
PeerDone ==
  /\ peer # Null
  /\ peer[1].emit # Null
  /\ peer[1].pc = "idle"
  /\ peer[1].result.op \in {"emit", "render"}

SameArguments ==
  /\ emit[1].schema = peer[1].emit[1].schema
  /\ emit[1].engine = peer[1].emit[1].engine

DistinctDefinitions ==
  \A i, j \in 1..Len(Definitions) :
    Definitions[i].name = Definitions[j].name => i = j

\* The names of Definitions that some local reference of the schema targets.
ReferredDefinitions ==
  {Definitions[i].name : i \in 1..Len(Definitions)} \cap
  UNION {LocalTargets(Definitions[i].value) : i \in 1..Len(Definitions)}

\* C21 (as claimed): when emitVersion has ended on a schema of Definitions
\* of distinct names, it has returned a text, and every local reference to
\* the name of a Definition of the schema, of whatever kind and declared
\* before or after the reference, is spelled as that name.
C21_LocalReferenceResolves ==
  (EmitDone /\ DistinctDefinitions /\ ReferredDefinitions # {}) =>
    /\ result.ok
    /\ \A n \in ReferredDefinitions : DeclaredToken(Tables, n) = Ok(n)

(***************************************************************************)
(* Properties of the re-export of a reference Definition (SpecReexport).   *)
(***************************************************************************)
\* The re-export that exposes the target of the reference Definition def
\* under the name of def, the target being spelled as the tables have it.
ExposedAsName(def) ==
  LET T == ReferenceRender(def.value, Tables).val
  IN IF T = def.name THEN "export type { " \o T \o " };"
     ELSE "export type { " \o T \o " as " \o def.name \o " };"

\* C22 (as claimed): the module of a schema of reference Definitions is
\* the import block, the API version and, for each Definition D, the
\* re-export `export type { T }` when the spelling T of the target is
\* D.name and `export type { T as D.name }` when it is not.
C22_ReexportUnderOwnName ==
  (EmitDone /\ result.ok) =>
    result.val =
      BlankLineJoined(<<ImportsRender(modules, names, ctx[1]).val,
                        ApiVersionRender(Tables, ctx[1]).val>> \o
                      [i \in 1..Len(Definitions) |-> ExposedAsName(Definitions[i])])

(***************************************************************************)
(* Order of the steps of Module.render() under emitVersion (SpecResource). *)
(***************************************************************************)
\* The Imports of the import table, as <<source index, member index>>.
ImportsOf(mods) ==
  UNION {{<<i, k>> : k \in 1..Len(mods[i].members)} : i \in 1..Len(mods)}

ImportNames == {id \in 1..Len(names) : names[id].usage = "import"}

\* C23: while the members are applied, those before the running one are
\* applied and no other, in the order they were added, and neither
\* Imports.apply nor Names.resolve has run; once Names.resolve has run,
\* which it has when a member renders, every member is applied, every
\* Import of the table has an 'import' Name of its own and there is no
\* other 'import' Name, and every Name is resolved.
C23_TotallyOrdered ==
  /\ pc = "apply" =>
       /\ frozen = Null
       /\ \A k \in 1..Len(members) : members[k].applied <=> k < idx
       /\ \A p \in ImportsOf(modules) : modules[p[1]].members[p[2]].name = 0
       /\ ImportNames = {}
  /\ pc = "render" => frozen # Null
  /\ frozen # Null =>
       /\ \A k \in 1..Len(members) : members[k].applied
       /\ \A p \in ImportsOf(modules) : modules[p[1]].members[p[2]].name \in ImportNames
       /\ \A p, q \in ImportsOf(modules) :
            modules[p[1]].members[p[2]].name = modules[q[1]].members[q[2]].name => p = q
       /\ Cardinality(ImportNames) = NumImports(modules)
       /\ frozen = Some(Len(names))
       /\ \A id \in 1..Len(names) : names[id].resolved # Null

\* A member renders in a Module of three members and of Imports from two
\* sources, one of them with more than one member.
C23_Witness ==
  /\ pc = "render"
  /\ Len(members) >= 3
  /\ Len(modules) = 2
  /\ NumImports(modules) > 3

(***************************************************************************)
(* Properties of the hosted path of an "api" source (SpecHosted).          *)
(***************************************************************************)
\* The hosted paths the claim allows for the source src = [api, pkg, path]:
\* pkg@version when the dependencies hold a version for pkg and pkg when
\* they hold none; for the package kubernetes a path without version,
\* with the package name or without it, whatever the dependencies hold.
ClaimedHostedPaths(src, c) ==
  LET version == DependencyVersion(c, src[2])
  IN IF src[2] = "kubernetes"
     THEN {"https://kure.sh/api/kubernetes/" \o src[3], "https://kure.sh/api/" \o src[3]}
     ELSE {"https://kure.sh/api/" \o src[2] \o
           (IF version # Null THEN "@" \o version[1] ELSE "") \o "/" \o src[3]}

\* C24 (as claimed): the import block rendered for the hosted engine from
\* one "api" source is its statement from a path the claim allows.
C24_HostedPath ==
  (JustRendered /\ result.ok /\ Len(modules) = 1 /\ ctx[1].engine = "deno") =>
    result.val \in {RenderImport(modules[1], names, p).val :
                      p \in ClaimedHostedPaths(modules[1].src, ctx[1])}

=============================================================================
